---------------------------- MODULE Spec2Model ----------------------------
(***************************************************************************)
(* Model of redact_extract.py: redaction-box detection, overlap            *)
(* classification, recovery statistics, line clustering and line           *)
(* reconstruction.                                                         *)
(*                                                                         *)
(* Numbers.  The program works on floats; the model works on integers.     *)
(*   - rectangle coordinates of boxes and word bounding boxes: points      *)
(*   - colour channels: hundredths (0.1 is 10)                             *)
(*   - "top" coordinates and line_tol in the clusterer: half points        *)
(*   - x coordinates, sizes, heights, space_unit_pts in build_line_text:   *)
(*     tenths of a point (3.0 is 30, 0.5 is 5, 72.0 is 720)                *)
(* Quotients are kept as pairs <<numerator, denominator>> and compared by  *)
(* cross multiplication.  An optional value (None or v) is <<>> or <<v>>.  *)
(***************************************************************************)
EXTENDS Integers, Sequences, FiniteSets, TLC

VARIABLES
    \* ---- word_overlaps_box (one call, then calls with a grown box)
    word_bbox, box, overlap_threshold, ov_ret, ov_ratio,
    \* ---- detect_redaction_boxes
    doc, d_idx, all_boxes, d_pc,
    \* ---- compute_redaction_stats
    pdf, s_pc, redaction_boxes, total_boxes, page_idx, w_idx,
    words_under_redactions, chars_under_redactions, total_words, total_chars,
    recovery_rate,
    \* ---- group_words_into_lines
    g_input, line_tol, words, g_i, lines, current, current_top, g_pc, g_ret,
    \* ---- build_line_text
    line_words_in, space_unit_pts, min_spaces, b_pc, line_words, font_pre,
    font_clamped, font_size, b_ret

ovVars == <<word_bbox, box, overlap_threshold, ov_ret, ov_ratio>>
dVars  == <<doc, d_idx, all_boxes, d_pc>>
sVars  == <<pdf, s_pc, redaction_boxes, total_boxes, page_idx, w_idx,
            words_under_redactions, chars_under_redactions, total_words,
            total_chars, recovery_rate>>
gVars  == <<g_input, line_tol, words, g_i, lines, current, current_top, g_pc,
            g_ret>>
bVars  == <<line_words_in, space_unit_pts, min_spaces, b_pc, line_words,
            font_pre, font_clamped, font_size, b_ret>>
vars   == <<ovVars, dVars, sVars, gVars, bVars>>

-----------------------------------------------------------------------------
(* Bounds of the model *)

GridMax == 3
MaxPages == 2
MaxDocItems == 2
MaxStatsItems == 3
MaxWords == 4
MaxLineWords == 3

-----------------------------------------------------------------------------
(* Generic helpers *)

Max(a, b) == IF a >= b THEN a ELSE b
Min(a, b) == IF a <= b THEN a ELSE b
Abs(a) == IF a >= 0 THEN a ELSE -a

SeqsUpTo(S, n) == UNION {[1..k -> S] : k \in 0..n}

None == <<>>
Some(v) == <<v>>

\* the subsequence of items whose slot (slot[i]) is p
RECURSIVE OnPage(_, _, _)
OnPage(items, slot, p) ==
    IF items = <<>> THEN <<>>
    ELSE LET rest == OnPage(Tail(items), Tail(slot), p)
         IN  IF Head(slot) = p THEN <<Head(items)>> \o rest ELSE rest

RECURSIVE SumSeq(_)
SumSeq(s) == IF s = <<>> THEN 0 ELSE Head(s) + SumSeq(Tail(s))

-----------------------------------------------------------------------------
(* word_overlaps_box, lines 138-170 *)

DefaultThreshold == <<1, 2>>

\* lines 156-159
Intersection(w, b) ==
    <<Max(w[1], b[1]), Max(w[2], b[2]), Min(w[3], b[3]), Min(w[4], b[4])>>

\* line 161
NoIntersection(w, b) ==
    LET i == Intersection(w, b) IN i[1] >= i[3] \/ i[2] >= i[4]

\* line 164
intersection_area(w, b) ==
    LET i == Intersection(w, b) IN (i[3] - i[1]) * (i[4] - i[2])

\* line 165
word_area(w) == (w[3] - w[1]) * (w[4] - w[2])

\* line 170 dividing by the area of the box instead of the word's
WordOverlapsByBoxArea(w, b, thr) ==
    IF NoIntersection(w, b) THEN FALSE
    ELSE IF word_area(w) <= 0 THEN FALSE
    ELSE intersection_area(w, b) * thr[2] >= thr[1] * word_area(b)

\* lines 152-170; thr is the threshold as <<numerator, denominator>>
word_overlaps_box(w, b, thr) ==
    IF NoIntersection(w, b) THEN FALSE
    ELSE IF word_area(w) <= 0 THEN FALSE
    ELSE intersection_area(w, b) * thr[2] >= thr[1] * word_area(w)

\* the quotient of line 170 as <<intersection_area, word_area>>; the early
\* returns of lines 162 and 168 leave no quotient: <<0, 1>>
overlap_ratio(w, b) ==
    IF NoIntersection(w, b) THEN <<0, 1>>
    ELSE IF word_area(w) <= 0 THEN <<0, 1>>
    ELSE <<intersection_area(w, b), word_area(w)>>


\* ---- one call of word_overlaps_box, and further calls with a larger box

Coords == 0..GridMax

\* boxes and words on the grid: well formed (x1 >= x0, y1 >= y0), zero-area
\* ones included
GridRects == {r \in Coords \X Coords \X Coords \X Coords :
                r[1] <= r[3] /\ r[2] <= r[4]}

\* words whose corners are swapped (not well formed)
IllFormedWords == {<<2, 0, 1, 2>>, <<2, 2, 1, 1>>, <<0, 2, 3, 1>>}

Thresholds == {<<1, 4>>, <<1, 2>>, <<1, 1>>}

OvIdle ==
    /\ word_bbox = <<0, 0, 0, 0>>
    /\ box = <<0, 0, 0, 0>>
    /\ overlap_threshold = DefaultThreshold
    /\ ov_ret = None
    /\ ov_ratio = None

OvInit ==
    /\ word_bbox \in GridRects \cup IllFormedWords
    /\ box \in GridRects
    /\ overlap_threshold \in Thresholds
    /\ ov_ret = None
    /\ ov_ratio = None

\* the first call
OvCall ==
    /\ ov_ret = None
    /\ ov_ret' = Some(word_overlaps_box(word_bbox, box, overlap_threshold))
    /\ ov_ratio' = Some(overlap_ratio(word_bbox, box))
    /\ UNCHANGED <<word_bbox, box, overlap_threshold>>

\* the boxes one grid step larger than b on one side
Grown(b) ==
    {g \in {<<b[1] - 1, b[2], b[3], b[4]>>, <<b[1], b[2] - 1, b[3], b[4]>>,
            <<b[1], b[2], b[3] + 1, b[4]>>, <<b[1], b[2], b[3], b[4] + 1>>} :
        g \in GridRects}

\* a further call on the same word with a box grown by one grid step
OvCallGrown ==
    /\ ov_ret # None
    /\ \E g \in Grown(box) :
        /\ box' = g
        /\ ov_ret' = Some(word_overlaps_box(word_bbox, g, overlap_threshold))
        /\ ov_ratio' = Some(overlap_ratio(word_bbox, g))
    /\ UNCHANGED <<word_bbox, overlap_threshold>>

-----------------------------------------------------------------------------
(* detect_redaction_boxes, lines 90-135 *)

\* annot.type[0] of a redaction annotation, line 104
PDF_ANNOT_REDACT == 12
\* colour channels are hundredths: 0.1 of line 115
DARK_LIMIT == 10
\* line 121 and line 129
MIN_WIDTH == 10
MIN_HEIGHT == 5

NoFill == [kind |-> "none", v |-> 0, ch |-> <<>>]
Scalar(x) == [kind |-> "scalar", v |-> x, ch |-> <<>>]
Channels(c) == [kind |-> "seq", v |-> 0, ch |-> c]

\* truth value of d.get("rect"): None and the all-zero Rect are falsy
RectTruthy(rect) == rect # None /\ rect # <<0, 0, 0, 0>>

\* lines 121 and 129 with >= for >
BigEnoughInclusive(rect) ==
    /\ rect[3] - rect[1] >= MIN_WIDTH
    /\ rect[4] - rect[2] >= MIN_HEIGHT

\* lines 119-121 and 127-129
BigEnough(rect) ==
    /\ rect[3] - rect[1] > MIN_WIDTH
    /\ rect[4] - rect[2] > MIN_HEIGHT

\* lines 116-122 and 125-130
AcceptRect(rect) ==
    IF RectTruthy(rect) /\ BigEnough(rect) THEN <<rect>> ELSE <<>>

\* line 114
IsTriple(fill) == fill.kind = "seq" /\ Len(fill.ch) >= 3

\* line 115
AllDark(fill) == \A i \in 1..3 : fill.ch[i] < DARK_LIMIT

\* line 123
IsGrayBlack(fill) ==
    \/ fill.kind = "scalar" /\ fill.v = 0
    \/ fill.kind = "seq" /\ fill.ch = <<0>>

\* lines 110-130: what one drawing adds to page_boxes
DrawingBoxes(d) ==
    IF d.fill.kind = "none" THEN <<>>
    ELSE IF IsTriple(d.fill)
         THEN (IF AllDark(d.fill) THEN AcceptRect(d.rect) ELSE <<>>)
         ELSE IF IsGrayBlack(d.fill) THEN AcceptRect(d.rect) ELSE <<>>

\* lines 104-105: what one annotation adds to page_boxes
AnnotBoxes(a) == IF a.type = PDF_ANNOT_REDACT THEN <<a.rect>> ELSE <<>>

\* lines 103-105
RECURSIVE AnnotLoop(_)
AnnotLoop(annots) ==
    IF annots = <<>> THEN <<>>
    ELSE AnnotBoxes(Head(annots)) \o AnnotLoop(Tail(annots))

\* lines 108-130
RECURSIVE DrawingLoop(_)
DrawingLoop(drawings) ==
    IF drawings = <<>> THEN <<>>
    ELSE DrawingBoxes(Head(drawings)) \o DrawingLoop(Tail(drawings))

\* lines 100-130: page_boxes of one page
PageBoxes(page) == AnnotLoop(page.annots) \o DrawingLoop(page.drawings)

\* lines 96-135 as one call
RECURSIVE detect_redaction_boxes(_)
detect_redaction_boxes(d) ==
    IF d = <<>> THEN <<>>
    ELSE <<PageBoxes(Head(d))>> \o detect_redaction_boxes(Tail(d))

\* ---- the documents of the detector's runs

WhiteFill == Channels(<<100, 100, 100>>)
BlackFill == Channels(<<0, 0, 0>>)
GoodRect == <<0, 0, 11, 6>>

\* every kind of fill on a rectangle large enough, and the dark fills on
\* rectangles that are missing, 10 wide or 5 high
DetDrawings ==
    {[fill |-> f, rect |-> GoodRect] :
        f \in {NoFill, BlackFill, Channels(<<9, 9, 9>>), Channels(<<9, 10, 0>>),
               WhiteFill, Scalar(0), Scalar(5), Channels(<<0>>)}}
    \cup {[fill |-> f, rect |-> r] :
            f \in {BlackFill, Scalar(0)},
            r \in {None, <<0, 0, 10, 6>>, <<0, 0, 11, 5>>}}

DetAnnots == {[type |-> PDF_ANNOT_REDACT, rect |-> <<0, 0, 2, 2>>],
              [type |-> 8, rect |-> <<0, 0, 50, 50>>]}

IsAnnot(item) == item \in DetAnnots
IsDrawing(item) == item \in DetDrawings

\* the slots of the items that are in S
RECURSIVE SlotsOf(_, _, _)
SlotsOf(items, slot, S) ==
    IF items = <<>> THEN <<>>
    ELSE (IF Head(items) \in S THEN <<Head(slot)>> ELSE <<>>)
         \o SlotsOf(Tail(items), Tail(slot), S)

\* a document of n pages: the annotations an, drawings dr and words wd, each
\* item on the page its slot names
MakeDoc(n, an, aslot, dr, dslot, wd, wslot) ==
    [p \in 1..n |-> [annots   |-> OnPage(an, aslot, p),
                     drawings |-> OnPage(dr, dslot, p),
                     words    |-> OnPage(wd, wslot, p)]]

\* slots in page order, so that every document is drawn once
Slots(k, n) == {s \in [1..k -> 1..n] : \A i \in 1..(k - 1) : s[i] <= s[i + 1]}

DIdle ==
    /\ doc = <<>>
    /\ d_idx = 0
    /\ all_boxes = <<>>
    /\ d_pc = "idle"

DInit ==
    /\ \E n \in 0..MaxPages :
       \E items \in SeqsUpTo(DetAnnots \cup DetDrawings, MaxDocItems) :
       \E slot \in Slots(Len(items), n) :
          doc = MakeDoc(n, SelectSeq(items, IsAnnot),
                        SlotsOf(items, slot, DetAnnots),
                        SelectSeq(items, IsDrawing),
                        SlotsOf(items, slot, DetDrawings), <<>>, <<>>)
    /\ d_idx = 1
    /\ all_boxes = <<>>
    /\ d_pc = "pages"

\* one iteration of the loop of line 99
DetectPage ==
    /\ d_pc = "pages"
    /\ d_idx <= Len(doc)
    /\ all_boxes' = Append(all_boxes, PageBoxes(doc[d_idx]))
    /\ d_idx' = d_idx + 1
    /\ UNCHANGED <<doc, d_pc>>

\* lines 134-135
DetectReturn ==
    /\ d_pc = "pages"
    /\ d_idx > Len(doc)
    /\ d_pc' = "done"
    /\ UNCHANGED <<doc, d_idx, all_boxes>>

-----------------------------------------------------------------------------
(* compute_redaction_stats, lines 173-229 *)

\* line 179
TotalBoxes(rb) == SumSeq([p \in 1..Len(rb) |-> Len(rb[p])])

\* line 195 reading the boxes of the first page for every page
PageBoxesFirst(rb, idx) == IF rb # <<>> THEN rb[1] ELSE <<>>

\* line 195 (pages are numbered from 1 here, from 0 in the program)
PageBoxesAt(rb, idx) == IF idx <= Len(rb) THEN rb[idx] ELSE <<>>

\* lines 214-218 without the break: every covering box counts
RECURSIVE ScanBoxesNoBreak(_, _)
ScanBoxesNoBreak(bbox, boxes) ==
    IF boxes = <<>> THEN 0
    ELSE (IF word_overlaps_box(bbox, Head(boxes), DefaultThreshold)
          THEN 1 ELSE 0) + ScanBoxesNoBreak(bbox, Tail(boxes))

\* lines 214-218: how many times the loop over page_boxes counts the word
RECURSIVE ScanBoxes(_, _)
ScanBoxes(bbox, boxes) ==
    IF boxes = <<>> THEN 0
    ELSE IF word_overlaps_box(bbox, Head(boxes), DefaultThreshold)
         THEN 1
         ELSE ScanBoxes(bbox, Tail(boxes))

\* line 220 without the guard: the quotient whatever total_chars is
RecoveryRateUnguarded(cu, tc) == <<cu * 100, tc>>

\* line 220: the percentage as <<numerator, denominator>>, 0.0 as <<0, 1>>
RecoveryRate(cu, tc) == IF tc > 0 THEN <<cu * 100, tc>> ELSE <<0, 1>>

\* ---- the documents of the statistics runs

InsideWord == [len |-> 5, blank |-> FALSE, bbox |-> <<110, 102, 190, 118>>]
HalfWord   == [len |-> 3, blank |-> FALSE, bbox |-> <<0, 0, 4, 2>>]
ThirdWord  == [len |-> 2, blank |-> FALSE, bbox |-> <<0, 0, 3, 2>>]
BlankWord  == [len |-> 1, blank |-> TRUE,  bbox |-> <<110, 102, 190, 118>>]

StatsWords == {InsideWord, HalfWord, ThirdWord, BlankWord}

BarDrawing  == [fill |-> BlackFill, rect |-> <<100, 100, 200, 120>>]
EdgeDrawing == [fill |-> BlackFill, rect |-> <<2, 0, 20, 10>>]

\* a white rectangle over the whole page: a drawing, not a redaction box
WhiteDrawing == [fill |-> WhiteFill, rect |-> <<0, 0, 200, 200>>]

StatsDrawings == {BarDrawing, EdgeDrawing, WhiteDrawing}

IsStatsDrawing(item) == item \in StatsDrawings
IsStatsWord(item) == item \in StatsWords

SIdle ==
    /\ pdf = <<>>
    /\ s_pc = "idle"
    /\ redaction_boxes = <<>>
    /\ total_boxes = 0
    /\ page_idx = 0
    /\ w_idx = 0
    /\ words_under_redactions = 0
    /\ chars_under_redactions = 0
    /\ total_words = 0
    /\ total_chars = 0
    /\ recovery_rate = None

SInit ==
    /\ \E n \in 0..MaxPages :
       \E items \in SeqsUpTo(StatsDrawings \cup StatsWords, MaxStatsItems) :
       \E slot \in Slots(Len(items), n) :
          pdf = MakeDoc(n, <<>>, <<>>,
                        SelectSeq(items, IsStatsDrawing),
                        SlotsOf(items, slot, StatsDrawings),
                        SelectSeq(items, IsStatsWord),
                        SlotsOf(items, slot, StatsWords))
    /\ s_pc = "start"
    /\ redaction_boxes = <<>>
    /\ total_boxes = 0
    /\ page_idx = 0
    /\ w_idx = 0
    /\ words_under_redactions = 0
    /\ chars_under_redactions = 0
    /\ total_words = 0
    /\ total_chars = 0
    /\ recovery_rate = None

\* lines 178-188: detect the boxes, zero the counters, open the first page
StatsDetect ==
    /\ s_pc = "start"
    /\ redaction_boxes' = detect_redaction_boxes(pdf)
    /\ total_boxes' = TotalBoxes(detect_redaction_boxes(pdf))
    /\ words_under_redactions' = 0
    /\ chars_under_redactions' = 0
    /\ total_words' = 0
    /\ total_chars' = 0
    /\ page_idx' = 1
    /\ w_idx' = 1
    /\ s_pc' = "pages"
    /\ UNCHANGED <<pdf, recovery_rate>>

\* lines 197-218: one iteration of the loop over the words of the page
StatsWord ==
    /\ s_pc = "pages"
    /\ page_idx <= Len(pdf)
    /\ w_idx <= Len(pdf[page_idx].words)
    /\ LET w == pdf[page_idx].words[w_idx]
           page_boxes == PageBoxesAt(redaction_boxes, page_idx)
           hits == ScanBoxes(w.bbox, page_boxes)
       IN  IF w.blank
           THEN UNCHANGED <<total_words, total_chars, words_under_redactions,
                            chars_under_redactions>>
           ELSE /\ total_words' = total_words + 1
                /\ total_chars' = total_chars + w.len
                /\ words_under_redactions' = words_under_redactions + hits
                /\ chars_under_redactions' =
                       chars_under_redactions + hits * w.len
    /\ w_idx' = w_idx + 1
    /\ UNCHANGED <<pdf, s_pc, redaction_boxes, total_boxes, page_idx,
                   recovery_rate>>

\* line 188: the words of the page are exhausted, the next page is opened
StatsNextPage ==
    /\ s_pc = "pages"
    /\ page_idx <= Len(pdf)
    /\ w_idx > Len(pdf[page_idx].words)
    /\ page_idx' = page_idx + 1
    /\ w_idx' = 1
    /\ UNCHANGED <<pdf, s_pc, redaction_boxes, total_boxes, recovery_rate,
                   words_under_redactions, chars_under_redactions,
                   total_words, total_chars>>

\* lines 220-229
StatsReturn ==
    /\ s_pc = "pages"
    /\ page_idx > Len(pdf)
    /\ recovery_rate' = Some(RecoveryRate(chars_under_redactions, total_chars))
    /\ s_pc' = "done"
    /\ UNCHANGED <<pdf, redaction_boxes, total_boxes, page_idx, w_idx,
                   words_under_redactions, chars_under_redactions,
                   total_words, total_chars>>

-----------------------------------------------------------------------------
(* group_words_into_lines, lines 232-262.  Tops and line_tol in half points *)

\* the key of line 237
KeyLE(a, b) == a.top < b.top \/ (a.top = b.top /\ a.x0 <= b.x0)

RECURSIVE InsertByKey(_, _)
InsertByKey(w, s) ==
    IF s = <<>> THEN <<w>>
    ELSE IF KeyLE(Head(s), w) THEN <<Head(s)>> \o InsertByKey(w, Tail(s))
         ELSE <<w>> \o s

RECURSIVE SortInto(_, _)
SortInto(ws, acc) ==
    IF ws = <<>> THEN acc ELSE SortInto(Tail(ws), InsertByKey(Head(ws), acc))

\* line 237: sorted() is stable
SortByTopX0(ws) == SortInto(ws, <<>>)

\* line 250, current_top being the quotient ct[1] / ct[2]
WithinTol(top, ct, tol) == Abs(top * ct[2] - ct[1]) <= tol * ct[2]

\* the centroid left at the value the cluster started with
AverageKept(ct, n, top) == ct

\* line 253, n being len(current) after the append
RunningAverage(ct, n, top) == <<ct[1] * (n - 1) + top * ct[2], ct[2] * n>>

\* the last cluster dropped
FinalLinesDropped(ls, cur) == ls

\* lines 259-260
FinalLines(ls, cur) == IF cur # <<>> THEN Append(ls, cur) ELSE ls

\* ---- the token lists of the clusterer's runs

GroupTokens == {[top |-> 20, x0 |-> 0], [top |-> 20, x0 |-> 1],
                [top |-> 21, x0 |-> 0], [top |-> 22, x0 |-> 0],
                [top |-> 23, x0 |-> 0], [top |-> 40, x0 |-> 0]}

LineTols == {2, 4}

\* the tokens of a list, each tagged with its place in the list
Tagged(ts) == [i \in 1..Len(ts) |-> [id |-> i, top |-> ts[i].top, x0 |-> ts[i].x0]]

GIdle ==
    /\ g_input = <<>>
    /\ line_tol = 4
    /\ words = <<>>
    /\ g_i = 0
    /\ lines = <<>>
    /\ current = <<>>
    /\ current_top = None
    /\ g_pc = "idle"
    /\ g_ret = None

GInit ==
    /\ \E ts \in SeqsUpTo(GroupTokens, MaxWords) : g_input = Tagged(ts)
    /\ line_tol \in LineTols
    /\ words = <<>>
    /\ g_i = 0
    /\ lines = <<>>
    /\ current = <<>>
    /\ current_top = None
    /\ g_pc = "start"
    /\ g_ret = None

\* lines 234-235: no words, no lines
GroupEmpty ==
    /\ g_pc = "start"
    /\ g_input = <<>>
    /\ g_ret' = Some(<<>>)
    /\ g_pc' = "done"
    /\ UNCHANGED <<g_input, line_tol, words, g_i, lines, current, current_top>>

\* lines 237-241
GroupSort ==
    /\ g_pc = "start"
    /\ g_input # <<>>
    /\ words' = SortByTopX0(g_input)
    /\ lines' = <<>>
    /\ current' = <<>>
    /\ current_top' = None
    /\ g_i' = 1
    /\ g_pc' = "loop"
    /\ UNCHANGED <<g_input, line_tol, g_ret>>

\* lines 243-257: one iteration of the loop
GroupStep ==
    /\ g_pc = "loop"
    /\ g_i <= Len(words)
    /\ LET w == words[g_i]
       IN  IF current_top = None
           THEN /\ current_top' = Some(<<w.top, 1>>)
                /\ current' = <<w>>
                /\ lines' = lines
           ELSE IF WithinTol(w.top, current_top[1], line_tol)
           THEN /\ current' = Append(current, w)
                /\ current_top' =
                     Some(RunningAverage(current_top[1], Len(current) + 1, w.top))
                /\ lines' = lines
           ELSE /\ lines' = Append(lines, current)
                /\ current' = <<w>>
                /\ current_top' = Some(<<w.top, 1>>)
    /\ g_i' = g_i + 1
    /\ UNCHANGED <<g_input, line_tol, words, g_pc, g_ret>>

\* lines 259-262
GroupReturn ==
    /\ g_pc = "loop"
    /\ g_i > Len(words)
    /\ lines' = FinalLines(lines, current)
    /\ g_ret' = Some(FinalLines(lines, current))
    /\ g_pc' = "done"
    /\ UNCHANGED <<g_input, line_tol, words, g_i, current, current_top>>

-----------------------------------------------------------------------------
(* build_line_text, lines 265-358, called with match_font = False.          *)
(* Coordinates, sizes and space_unit_pts in tenths of a point.              *)

RECURSIVE InsertByX0(_, _)
InsertByX0(w, s) ==
    IF s = <<>> THEN <<w>>
    ELSE IF Head(s).x0 <= w.x0 THEN <<Head(s)>> \o InsertByX0(w, Tail(s))
         ELSE <<w>> \o s

RECURSIVE SortIntoX0(_, _)
SortIntoX0(ws, acc) ==
    IF ws = <<>> THEN acc ELSE SortIntoX0(Tail(ws), InsertByX0(Head(ws), acc))

\* line 270
SortByX0(ws) == SortIntoX0(ws, <<>>)

RECURSIVE InsertNum(_, _)
InsertNum(x, s) ==
    IF s = <<>> THEN <<x>>
    ELSE IF Head(s) <= x THEN <<Head(s)>> \o InsertNum(x, Tail(s))
         ELSE <<x>> \o s

RECURSIVE SortNumsInto(_, _)
SortNumsInto(xs, acc) ==
    IF xs = <<>> THEN acc ELSE SortNumsInto(Tail(xs), InsertNum(Head(xs), acc))

\* sorted() of lines 299 and 331, hs.sort() of lines 312 and 320
SortNums(xs) == SortNumsInto(xs, <<>>)

\* xs[len(xs) // 2] of lines 300, 313, 321 and 331 (xs sorted, not empty)
MiddleOf(xs) == xs[(Len(xs) \div 2) + 1]

\* line 282
SIZE_MIN == 40
SIZE_MAX == 720
\* lines 307 and 309
HEIGHT_MIN == 60
HEIGHT_MAX == 720
\* line 315
SIZE_DEFAULT == 100
\* line 318
CLAMP_LOW == 60
CLAMP_HIGH == 120
\* line 347
UNIT_MIN == 5

\* line 282 with the window dropped: every declared size is kept
InWindowAlways(v) == TRUE

\* line 282
InWindow(v) == SIZE_MIN <= v /\ v <= SIZE_MAX

\* lines 274-285: the sizes list
RECURSIVE Sizes(_)
Sizes(ws) ==
    IF ws = <<>> THEN <<>>
    ELSE LET s == Head(ws).size
         IN  (IF s # None /\ InWindow(s[1]) THEN <<s[1]>> ELSE <<>>)
             \o Sizes(Tail(ws))

\* line 307
HeightOf(w) == Max(HEIGHT_MIN, w.bottom - w.top)

\* lines 303-310: the hs list
RECURSIVE Heights(_)
Heights(ws) ==
    IF ws = <<>> THEN <<>>
    ELSE (IF HeightOf(Head(ws)) <= HEIGHT_MAX THEN <<HeightOf(Head(ws))>>
          ELSE <<>>) \o Heights(Tail(ws))

\* lines 298, 311 and 314: the branch that sets font_size
FontSizeSource(ws) ==
    IF Sizes(ws) # <<>> THEN "sizes"
    ELSE IF Heights(ws) # <<>> THEN "heights"
    ELSE "default"

\* lines 298-315: font_size before the clamp
FontSizeEstimate(ws) ==
    IF Sizes(ws) # <<>> THEN MiddleOf(SortNums(Sizes(ws)))
    ELSE IF Heights(ws) # <<>> THEN MiddleOf(SortNums(Heights(ws)))
    ELSE SIZE_DEFAULT

\* line 318
Clamp(fs) == Max(CLAMP_LOW, Min(CLAMP_HIGH, fs))

\* lines 319-321, run where hs, top and bottom are bound (the fallback path):
\* top and bottom are those of the last word of the loop of line 304
StaleFontSize(ws) ==
    MiddleOf(SortNums(Append(Heights(ws), HeightOf(ws[Len(ws)]))))

\* round(): to the nearest integer, halves to the even one (a >= 0, b > 0)
RoundHalfEven(a, b) ==
    LET q == a \div b
        r == a % b
    IN  IF 2 * r < b THEN q
        ELSE IF 2 * r > b THEN q + 1
        ELSE IF q % 2 = 0 THEN q ELSE q + 1

\* lines 346-352: the number of spaces put before a token
SpacesFor(gap, unit, minsp) ==
    IF gap > 0
    THEN Max(minsp, RoundHalfEven(gap, Max(UNIT_MIN, unit)))
    ELSE IF 10 * gap > -(unit * 3) THEN 1 ELSE 0

Spaces(n) == [i \in 1..n |-> " "]

\* line 344 with the previous token's x1 instead of the running maximum
NextPrevLast(prev_x1, x1) == x1

\* line 355
NextPrev(prev_x1, x1) == Max(prev_x1, x1)

\* lines 339-356: the text appended after the first token
RECURSIVE AssembleRest(_, _, _, _)
AssembleRest(ws, prev_x1, unit, minsp) ==
    IF ws = <<>> THEN <<>>
    ELSE LET w == Head(ws)
         IN  Spaces(SpacesFor(w.x0 - prev_x1, unit, minsp)) \o w.text
             \o AssembleRest(Tail(ws), NextPrev(prev_x1, w.x1), unit, minsp)

\* lines 333-358: "".join(parts)
AssembleText(ws, unit, minsp) ==
    ws[1].text \o AssembleRest(Tail(ws), ws[1].x1, unit, minsp)

\* lines 334 and 356
RECURSIVE LastX1(_)
LastX1(ws) ==
    IF Len(ws) = 1 THEN ws[1].x1 ELSE Max(ws[1].x1, LastX1(Tail(ws)))

\* line 331
TopMed(ws) == MiddleOf(SortNums([i \in 1..Len(ws) |-> ws[i].top]))

\* ---- the lines of the reconstructor's runs

Tok(t, a, b, bot, s) ==
    [text |-> <<t>>, x0 |-> a, x1 |-> b, top |-> 0, bottom |-> bot, size |-> s]

BuildTokens ==
    { Tok("a", 0, 100, 59, None),
      Tok("b", 190, 200, 100, Some(100)),
      Tok("c", 105, 150, 200, None),
      Tok("d", 95, 130, 800, Some(1000)),
      Tok("e", 80, 90, 100, Some(180)),
      Tok("f", 175, 180, 800, None),
      Tok("g", 100, 103, 130, Some(59)),
      Tok("h", 50, 60, 50, Some(30)) }

SpaceUnits == {30, 10, 2}
MinSpaces == {0, 1, 2}

BIdle ==
    /\ line_words_in = <<>>
    /\ space_unit_pts = 30
    /\ min_spaces = 1
    /\ b_pc = "idle"
    /\ line_words = <<>>
    /\ font_pre = None
    /\ font_clamped = None
    /\ font_size = None
    /\ b_ret = None

BInit ==
    /\ line_words_in \in SeqsUpTo(BuildTokens, MaxLineWords) \ {<<>>}
    /\ space_unit_pts \in SpaceUnits
    /\ min_spaces \in MinSpaces
    /\ b_pc = "start"
    /\ line_words = <<>>
    /\ font_pre = None
    /\ font_clamped = None
    /\ font_size = None
    /\ b_ret = None

\* lines 270-318: sort, estimate the font size, clamp it
BuildFontSize ==
    /\ b_pc = "start"
    /\ line_words' = SortByX0(line_words_in)
    /\ font_pre' = Some([v   |-> FontSizeEstimate(SortByX0(line_words_in)),
                         src |-> FontSizeSource(SortByX0(line_words_in))])
    /\ font_clamped' = Some(Clamp(FontSizeEstimate(SortByX0(line_words_in))))
    /\ font_size' = Some(Clamp(FontSizeEstimate(SortByX0(line_words_in))))
    /\ b_pc' = "clamped"
    /\ UNCHANGED <<line_words_in, space_unit_pts, min_spaces, b_ret>>

\* lines 319-321 on the fallback path: font_size is assigned again
BuildStaleFallback ==
    /\ b_pc = "clamped"
    /\ Sizes(line_words) = <<>>
    /\ font_size' = Some(StaleFontSize(line_words))
    /\ b_pc' = "assemble"
    /\ UNCHANGED <<line_words_in, space_unit_pts, min_spaces, line_words,
                   font_pre, font_clamped, b_ret>>

\* lines 319-321 on the sizes path: hs is not bound, NameError
BuildStaleRaise ==
    /\ b_pc = "clamped"
    /\ Sizes(line_words) # <<>>
    /\ b_ret' = Some([raised |-> "NameError"])
    /\ b_pc' = "raised"
    /\ UNCHANGED <<line_words_in, space_unit_pts, min_spaces, line_words,
                   font_pre, font_clamped, font_size>>

\* lines 324-358; from "clamped" when lines 319-321 are not run
BuildAssemble ==
    /\ b_pc \in {"clamped", "assemble"}
    /\ b_ret' = Some([text      |-> AssembleText(line_words, space_unit_pts,
                                                 min_spaces),
                      first_x0  |-> line_words[1].x0,
                      last_x1   |-> LastX1(line_words),
                      top_med   |-> TopMed(line_words),
                      font_size |-> font_size[1],
                      font_name |-> "helvetica"])
    /\ b_pc' = "done"
    /\ UNCHANGED <<line_words_in, space_unit_pts, min_spaces, line_words,
                   font_pre, font_clamped, font_size>>

-----------------------------------------------------------------------------
(* Specifications: one per function *)

InitOverlap == OvInit /\ DIdle /\ SIdle /\ GIdle /\ BIdle
NextOverlap ==
    \/ OvCall /\ UNCHANGED <<dVars, sVars, gVars, bVars>>
    \/ OvCallGrown /\ UNCHANGED <<dVars, sVars, gVars, bVars>>
SpecOverlap == InitOverlap /\ [][NextOverlap]_vars

InitDetect == OvIdle /\ DInit /\ SIdle /\ GIdle /\ BIdle
NextDetect ==
    \/ DetectPage /\ UNCHANGED <<ovVars, sVars, gVars, bVars>>
    \/ DetectReturn /\ UNCHANGED <<ovVars, sVars, gVars, bVars>>
SpecDetect == InitDetect /\ [][NextDetect]_vars

InitStats == OvIdle /\ DIdle /\ SInit /\ GIdle /\ BIdle
NextStats ==
    \/ StatsDetect /\ UNCHANGED <<ovVars, dVars, gVars, bVars>>
    \/ StatsWord /\ UNCHANGED <<ovVars, dVars, gVars, bVars>>
    \/ StatsNextPage /\ UNCHANGED <<ovVars, dVars, gVars, bVars>>
    \/ StatsReturn /\ UNCHANGED <<ovVars, dVars, gVars, bVars>>
SpecStats == InitStats /\ [][NextStats]_vars

InitGroup == OvIdle /\ DIdle /\ SIdle /\ GInit /\ BIdle
NextGroup ==
    \/ GroupEmpty /\ UNCHANGED <<ovVars, dVars, sVars, bVars>>
    \/ GroupSort /\ UNCHANGED <<ovVars, dVars, sVars, bVars>>
    \/ GroupStep /\ UNCHANGED <<ovVars, dVars, sVars, bVars>>
    \/ GroupReturn /\ UNCHANGED <<ovVars, dVars, sVars, bVars>>
SpecGroup == InitGroup /\ [][NextGroup]_vars

InitBuild == OvIdle /\ DIdle /\ SIdle /\ GIdle /\ BInit
NextBuild ==
    \/ BuildFontSize /\ UNCHANGED <<ovVars, dVars, sVars, gVars>>
    \/ BuildStaleFallback /\ UNCHANGED <<ovVars, dVars, sVars, gVars>>
    \/ BuildStaleRaise /\ UNCHANGED <<ovVars, dVars, sVars, gVars>>
    \/ BuildAssemble /\ UNCHANGED <<ovVars, dVars, sVars, gVars>>
SpecBuild == InitBuild /\ [][NextBuild]_vars

-----------------------------------------------------------------------------
(* Properties *)

RectWidth(r) == r[3] - r[1]
RectHeight(r) == r[4] - r[2]
RectArea(r) == RectWidth(r) * RectHeight(r)
WellFormed(r) == r[1] <= r[3] /\ r[2] <= r[4]
Degenerate(r) == WellFormed(r) /\ RectArea(r) = 0
Contains(outer, inner) ==
    /\ outer[1] <= inner[1] /\ outer[2] <= inner[2]
    /\ inner[3] <= outer[3] /\ inner[4] <= outer[4]
Disjoint(a, b) ==
    a[3] <= b[1] \/ b[3] <= a[1] \/ a[4] <= b[2] \/ b[4] <= a[2]

\* the area two well-formed rectangles share
SharedArea(a, b) ==
    Max(0, Min(a[3], b[3]) - Max(a[1], b[1]))
        * Max(0, Min(a[4], b[4]) - Max(a[2], b[2]))

\* at least half of the word's area lies in the box
HalfCovered(w, b) == RectArea(w) > 0 /\ 2 * SharedArea(w, b) >= RectArea(w)

RECURSIVE SumOver(_, _)
SumOver(f, S) ==
    IF S = {} THEN 0
    ELSE LET x == CHOOSE y \in S : TRUE IN f[x] + SumOver(f, S \ {x})

\* ---- C7

PositiveWord == WellFormed(word_bbox) /\ RectArea(word_bbox) > 0

C7_Calls ==
    ov_ret # None =>
        /\ (PositiveWord /\ Contains(box, word_bbox)) =>
              /\ ov_ratio[1][1] = ov_ratio[1][2]
              /\ ov_ret[1] = TRUE
        /\ (PositiveWord /\ (Disjoint(word_bbox, box) \/ Degenerate(box))) =>
              /\ ov_ratio[1][1] = 0
              /\ ov_ret[1] = FALSE
        /\ RectArea(word_bbox) <= 0 => ov_ret[1] = FALSE

C7_Growth ==
    (ov_ret # None /\ ov_ret' # None /\ PositiveWord /\ Contains(box', box)) =>
        /\ ov_ratio'[1][1] * ov_ratio[1][2] >= ov_ratio[1][1] * ov_ratio'[1][2]
        /\ ov_ret[1] => ov_ret'[1]

\* C7: for a well-formed word of positive area the overlap ratio is 1 (and
\* the word is covered) when the word lies inside the box, 0 (and the word is
\* not covered at any positive threshold) when the rectangles are disjoint or
\* the box has zero area, and never decreases when the box is enlarged; a
\* word of area <= 0 is never covered.
C7_OverlapRatio == [](C7_Calls) /\ [][C7_Growth]_vars

\* a word of positive area inside a larger box: covered at threshold 1
C7_Witness ==
    /\ ov_ret = Some(TRUE)
    /\ PositiveWord
    /\ overlap_threshold = <<1, 1>>
    /\ Contains(box, word_bbox)
    /\ box # word_bbox
    /\ ov_ratio[1][1] = ov_ratio[1][2]

\* ---- C6

ClaimDark(fill) ==
    \/ fill.kind = "seq" /\ Len(fill.ch) = 3
         /\ \A i \in 1..3 : fill.ch[i] < 10
    \/ fill.kind = "scalar" /\ fill.v = 0
    \/ fill.kind = "seq" /\ Len(fill.ch) = 1 /\ fill.ch[1] = 0

ClaimDrawingEmitted(d) ==
    /\ d.fill.kind # "none"
    /\ ClaimDark(d.fill)
    /\ d.rect # None
    /\ RectWidth(d.rect) > 10
    /\ RectHeight(d.rect) > 5

\* the rectangles of the items of s that satisfy keep, in order
RECURSIVE ClaimAnnotRects(_)
ClaimAnnotRects(s) ==
    IF s = <<>> THEN <<>>
    ELSE (IF Head(s).type = 12 THEN <<Head(s).rect>> ELSE <<>>)
         \o ClaimAnnotRects(Tail(s))

RECURSIVE ClaimDrawingRects(_)
ClaimDrawingRects(s) ==
    IF s = <<>> THEN <<>>
    ELSE (IF ClaimDrawingEmitted(Head(s)) THEN <<Head(s).rect>> ELSE <<>>)
         \o ClaimDrawingRects(Tail(s))

\* C6: the box list of every page is the rectangles of its redaction
\* annotations (whatever their size) followed by the rectangles of its dark
\* filled drawings wider than 10 and higher than 5, duplicates kept; nothing
\* else is emitted and a page with no annotation and no drawing gives an
\* empty list.
C6_DetectedBoxes ==
    /\ d_pc = "done" => Len(all_boxes) = Len(doc)
    /\ \A p \in 1..Len(all_boxes) :
          /\ all_boxes[p] = ClaimAnnotRects(doc[p].annots)
                              \o ClaimDrawingRects(doc[p].drawings)
          /\ (doc[p].annots = <<>> /\ doc[p].drawings = <<>>)
                => all_boxes[p] = <<>>

\* the same rectangle filled black twice, as grayscale 0 and as RGB 0 0 0:
\* both are kept
C6_Witness ==
    /\ d_pc = "done"
    /\ Len(doc) = 1
    /\ doc[1].drawings = <<[fill |-> Scalar(0), rect |-> GoodRect],
                           [fill |-> BlackFill, rect |-> GoodRect]>>
    /\ all_boxes = << <<GoodRect, GoodRect>> >>

\* ---- C1

StatsWordStep ==
    s_pc = "pages" /\ s_pc' = "pages" /\ page_idx' = page_idx /\ w_idx' = w_idx + 1

C1_Step ==
    StatsWordStep =>
        LET w == pdf[page_idx].words[w_idx]
            own == redaction_boxes[page_idx]
            dw == words_under_redactions' - words_under_redactions
            dc == chars_under_redactions' - chars_under_redactions
        IN  IF ~w.blank /\ \E j \in 1..Len(own) : HalfCovered(w.bbox, own[j])
            THEN dw = 1 /\ dc = w.len
            ELSE dw = 0 /\ dc = 0

C1_Example ==
    (/\ s_pc = "done"
     /\ Len(pdf) = 1
     /\ pdf[1].drawings = <<BarDrawing>>
     /\ pdf[1].words = <<InsideWord>>)
        => /\ total_boxes = 1
           /\ words_under_redactions = 1
           /\ recovery_rate = Some(<<500, 5>>)

\* C1: a non-blank token is counted as covered exactly when some box of its
\* own page shares at least half of the token's area; a token adds at most 1
\* to words_under_redactions and at most len(text) to chars_under_redactions
\* however many boxes cover it; one token inside one box gives 1.
C1_CoveredOnce == [](C1_Example) /\ [][C1_Step]_vars

\* a token covered by two boxes of its page has been counted once
C1_Witness ==
    /\ s_pc = "pages"
    /\ page_idx = 1
    /\ w_idx = 2
    /\ pdf[1].words[1] = HalfWord
    /\ pdf[1].drawings = <<EdgeDrawing, EdgeDrawing>>
    /\ words_under_redactions = 1
    /\ chars_under_redactions = 3

\* ---- C2

\* C2: the recovery rate returned is chars_under_redactions /
\* total_chars_extracted * 100 when total_chars_extracted > 0, and 0.0 (a
\* number, no division by zero) when it is 0.
C2_RecoveryRate ==
    s_pc = "done" =>
        /\ recovery_rate # None
        /\ recovery_rate[1][2] > 0
        /\ total_chars > 0 =>
              recovery_rate[1][1] * total_chars
                  = chars_under_redactions * 100 * recovery_rate[1][2]
        /\ total_chars = 0 => recovery_rate[1][1] = 0

\* a page with a box and only a blank token: no characters extracted
C2_Witness ==
    /\ s_pc = "done"
    /\ Len(pdf) = 1
    /\ pdf[1].words = <<BlankWord>>
    /\ total_boxes = 1
    /\ total_chars = 0
    /\ recovery_rate = Some(<<0, 1>>)

\* ---- C9

ClaimNonBlank(page) == {i \in 1..Len(page.words) : ~page.words[i].blank}

ClaimCoveredOn(page) ==
    LET own == PageBoxes(page)
    IN  {i \in ClaimNonBlank(page) :
            \E j \in 1..Len(own) : HalfCovered(page.words[i].bbox, own[j])}

ClaimLens(page) == [i \in 1..Len(page.words) |-> page.words[i].len]

\* a partial count of one page, from that page alone
ClaimPartial(field, page) ==
    CASE field = "boxes" -> Len(PageBoxes(page))
      [] field = "words" -> Cardinality(ClaimNonBlank(page))
      [] field = "chars" -> SumOver(ClaimLens(page), ClaimNonBlank(page))
      [] field = "covered_words" -> Cardinality(ClaimCoveredOn(page))
      [] field = "covered_chars" ->
            SumOver(ClaimLens(page), ClaimCoveredOn(page))

\* the sum of a partial count over a set of pages
ClaimTotal(field, P) ==
    SumOver([p \in P |-> ClaimPartial(field, pdf[p])], P)

ClaimTotalsOver(P) ==
    /\ total_words = ClaimTotal("words", P)
    /\ total_chars = ClaimTotal("chars", P)
    /\ words_under_redactions = ClaimTotal("covered_words", P)
    /\ chars_under_redactions = ClaimTotal("covered_chars", P)

\* C9: the counters are the sums of per-page partial counts, each page's
\* tokens classified against that page's boxes only (so the order of the
\* pages does not matter); a page without tokens or boxes adds zero.
C9_SumOfPages ==
    /\ s_pc \in {"pages", "done"} =>
          total_boxes = ClaimTotal("boxes", 1..Len(pdf))
    /\ s_pc = "done" => ClaimTotalsOver(1..Len(pdf))
    /\ (s_pc = "pages" /\ w_idx = 1) => ClaimTotalsOver(1..(page_idx - 1))

\* the box of page 1 would cover the token of page 2
C9_Witness ==
    /\ s_pc = "done"
    /\ Len(pdf) = 2
    /\ pdf[1].drawings = <<EdgeDrawing>>
    /\ pdf[1].words = <<>>
    /\ pdf[2].drawings = <<>>
    /\ pdf[2].words = <<HalfWord>>
    /\ total_boxes = 1
    /\ total_words = 1
    /\ words_under_redactions = 0

\* ---- C3

TopsOf(ws) == [i \in 1..Len(ws) |-> ws[i].top]

GroupLoopStep == g_pc = "loop" /\ g_i' = g_i + 1

\* the quotient q is the arithmetic mean of the tops of ws
IsMeanOf(q, ws) == q[1] * Len(ws) = SumSeq(TopsOf(ws)) * q[2]

C3_Step ==
    GroupLoopStep =>
        LET w == words[g_i]
            n == Len(current)
            sum == SumSeq(TopsOf(current))
        IN  /\ IF n = 0
               THEN current' = <<w>> /\ lines' = lines
               ELSE IF Abs(w.top * n - sum) <= line_tol * n
               THEN current' = Append(current, w) /\ lines' = lines
               ELSE current' = <<w>> /\ lines' = Append(lines, current)
            /\ current_top' # None
            /\ IsMeanOf(current_top'[1], current')

C3_Sorted ==
    g_pc = "loop" =>
        \A i \in 1..Len(words) : \A j \in i..Len(words) :
            \/ words[i].top < words[j].top
            \/ words[i].top = words[j].top /\ words[i].x0 <= words[j].x0

\* tops 10.0, 10.5, 11.0, 20.0 and lineTol 2.0, in half points
C3_Example ==
    (g_pc = "done" /\ TopsOf(words) = <<20, 21, 22, 40>> /\ line_tol = 4) =>
        /\ Len(g_ret[1]) = 2
        /\ TopsOf(g_ret[1][1]) = <<20, 21, 22>>
        /\ TopsOf(g_ret[1][2]) = <<40>>

\* C3: the tokens are walked sorted by (top, x0); a token joins the current
\* cluster exactly when its top is within lineTol of the mean of the tops
\* already in the cluster, and otherwise closes it and starts a new cluster
\* whose centroid is its own top; tops 10.0, 10.5, 11.0, 20.0 with lineTol
\* 2.0 give the lines {10.0, 10.5, 11.0} and {20.0}.
C3_Clustering == [](C3_Sorted /\ C3_Example) /\ [][C3_Step]_vars

\* tops 10.0, 11.0, 11.5 with lineTol 1.0: 11.5 is within 1.0 of the mean
\* 10.5 of the first two, not of the first top
C3_Witness ==
    /\ g_pc = "done"
    /\ line_tol = 2
    /\ TopsOf(words) = <<20, 22, 23>>
    /\ Len(g_ret[1]) = 1
    /\ TopsOf(g_ret[1][1]) = <<20, 22, 23>>

\* ---- C10

RECURSIVE Flatten(_)
Flatten(ls) == IF ls = <<>> THEN <<>> ELSE Head(ls) \o Flatten(Tail(ls))

\* C10: the lines returned, concatenated, are the input tokens sorted by
\* (top, x0) (equal keys in input order): none lost, none twice, no line
\* empty, lines top to bottom; no tokens give no lines.
C10_LinesPartitionInput ==
    g_pc = "done" =>
        LET ls == g_ret[1]
            flat == Flatten(ls)
        IN  /\ g_input = <<>> => ls = <<>>
            /\ \A k \in 1..Len(ls) : ls[k] # <<>>
            /\ Len(flat) = Len(g_input)
            /\ {flat[i].id : i \in 1..Len(flat)} = 1..Len(g_input)
            /\ \A i \in 1..Len(flat) : flat[i] = g_input[flat[i].id]
            /\ \A i \in 1..Len(flat) : \A j \in (i + 1)..Len(flat) :
                  \/ flat[i].top < flat[j].top
                  \/ flat[i].top = flat[j].top /\ flat[i].x0 < flat[j].x0
                  \/ /\ flat[i].top = flat[j].top
                     /\ flat[i].x0 = flat[j].x0
                     /\ flat[i].id < flat[j].id
            /\ \A k \in 1..(Len(ls) - 1) :
                  ls[k][Len(ls[k])].top <= ls[k + 1][1].top

\* four tokens given bottom line first come back as two lines, top first
C10_Witness ==
    /\ g_pc = "done"
    /\ Len(g_input) = 4
    /\ g_input[1].top = 40
    /\ g_input[2].top = 20 /\ g_input[2].x0 = 1
    /\ g_input[3].top = 20 /\ g_input[3].x0 = 0
    /\ Len(g_ret[1]) = 2
    /\ g_ret[1][1][1].id = 3
    /\ g_ret[1][2][1].id = 1

\* ---- C4

\* the number of spaces before each letter of a text
RECURSIVE SpaceRuns(_, _)
SpaceRuns(t, run) ==
    IF t = <<>> THEN <<>>
    ELSE IF Head(t) = " " THEN SpaceRuns(Tail(t), run + 1)
         ELSE <<run>> \o SpaceRuns(Tail(t), 0)

IsLetter(c) == c # " "

\* the largest x1 among the tokens before the i-th
MaxX1Before(ws, i) ==
    CHOOSE m \in {ws[j].x1 : j \in 1..(i - 1)} :
        \A j \in 1..(i - 1) : ws[j].x1 <= m

\* the integer nearest to a / b, the even one of two equally near
ClaimRound(a, b) ==
    CHOOSE r \in 0..a :
        /\ 2 * Abs(a - r * b) <= b
        /\ 2 * Abs(a - r * b) = b => r % 2 = 0

ClaimSpaces(gap, unit, minsp) ==
    IF gap > 0 THEN Max(minsp, ClaimRound(gap, Max(5, unit)))
    ELSE IF 10 * gap > -3 * unit THEN 1
    ELSE 0

C4_Text(ts) == b_pc = "done" /\ line_words_in = ts /\ space_unit_pts = 30
                  /\ min_spaces = 1

\* gaps 9.0, 0.5, -0.5 and -2.0 after the token "a" (x1 = 10.0)
C4_Examples ==
    /\ C4_Text(<<Tok("a", 0, 100, 59, None), Tok("b", 190, 200, 100, Some(100))>>)
          => b_ret[1].text = <<"a", " ", " ", " ", "b">>
    /\ C4_Text(<<Tok("a", 0, 100, 59, None), Tok("c", 105, 150, 200, None)>>)
          => b_ret[1].text = <<"a", " ", "c">>
    /\ C4_Text(<<Tok("a", 0, 100, 59, None), Tok("d", 95, 130, 800, Some(1000))>>)
          => b_ret[1].text = <<"a", " ", "d">>
    /\ C4_Text(<<Tok("a", 0, 100, 59, None), Tok("e", 80, 90, 100, Some(180))>>)
          => b_ret[1].text = <<"a", "e">>

\* C4: before every token after the first in x0 order, with gap = its x0
\* minus the largest x1 of the tokens before it, the text has
\* max(minSpaces, round(gap / max(0.5, spaceUnitPts))) spaces when gap > 0,
\* one space when -0.3 * spaceUnitPts < gap <= 0 and none otherwise.
C4_Spacing ==
    /\ C4_Examples
    /\ b_pc = "done" =>
        LET text == b_ret[1].text
            runs == SpaceRuns(text, 0)
        IN  /\ \A i \in 1..(Len(line_words) - 1) :
                  line_words[i].x0 <= line_words[i + 1].x0
            /\ SelectSeq(text, IsLetter)
                  = [i \in 1..Len(line_words) |-> line_words[i].text[1]]
            /\ Len(runs) = Len(line_words)
            /\ runs[1] = 0
            /\ text[Len(text)] # " "
            /\ \A i \in 2..Len(line_words) :
                  runs[i] = ClaimSpaces(
                              line_words[i].x0 - MaxX1Before(line_words, i),
                              space_unit_pts, min_spaces)

\* "c" starts 0.5 after the end of "a", the widest token before it, and 1.5
\* after the end of "e", the token just before it
C4_Witness ==
    /\ b_pc = "done"
    /\ space_unit_pts = 10
    /\ min_spaces = 1
    /\ Len(line_words) = 3
    /\ b_ret[1].text = <<"a", "e", " ", "c">>

\* ---- C5

\* C5: the font size returned for a line is the clamped value and lies in
\* [6, 12]
C5_FontSizeClamped ==
    b_pc = "done" =>
        /\ b_ret[1].font_size = font_clamped[1]
        /\ 60 <= b_ret[1].font_size
        /\ b_ret[1].font_size <= 120

\* ---- C8

Declaring(ws) == {i \in 1..Len(ws) : ws[i].size # None}
DeclaringInWindow(ws) ==
    {i \in Declaring(ws) : 40 <= ws[i].size[1] /\ ws[i].size[1] <= 720}

\* m is the element at place len // 2 (from 0) of the values f[i], i in S,
\* sorted: the median, the upper of the two middle ones when S is even
IsMedian(m, f, S) ==
    /\ \E i \in S : f[i] = m
    /\ Cardinality({i \in S : f[i] < m}) <= Cardinality(S) \div 2
    /\ Cardinality({i \in S : f[i] <= m}) > Cardinality(S) \div 2

SizeOf(ws) == [i \in 1..Len(ws) |-> IF ws[i].size = None THEN 0 ELSE ws[i].size[1]]
RawHeight(ws) == [i \in 1..Len(ws) |-> Max(60, ws[i].bottom - ws[i].top)]
ClampedHeight(ws) == [i \in 1..Len(ws) |-> Min(720, RawHeight(ws)[i])]
KeptHeights(ws) == {i \in 1..Len(ws) : RawHeight(ws)[i] <= 720}

\* C8 as stated: median of the declared sizes within 4-72 when there are
\* some; the fallback, the median of the heights clamped to [6, 72], is taken
\* only if no token declares a size.
C8_AsStated ==
    b_pc # "start" =>
        LET ws == line_words
            pre == font_pre[1]
        IN  /\ DeclaringInWindow(ws) # {} =>
                  /\ pre.src = "sizes"
                  /\ IsMedian(pre.v, SizeOf(ws), DeclaringInWindow(ws))
            /\ pre.src # "sizes" =>
                  /\ Declaring(ws) = {}
                  /\ IsMedian(pre.v, ClampedHeight(ws), 1..Len(ws))

\* C8 amended: the fallback is taken exactly when no token declares a size
\* within 4-72; it is the median of the heights max(6, bottom - top) that are
\* at most 72 (larger ones are left out), and 10.0 when none is left.
C8_Amended ==
    b_pc # "start" =>
        LET ws == line_words
            pre == font_pre[1]
        IN  /\ DeclaringInWindow(ws) # {} =>
                  /\ pre.src = "sizes"
                  /\ IsMedian(pre.v, SizeOf(ws), DeclaringInWindow(ws))
            /\ (DeclaringInWindow(ws) = {} /\ KeptHeights(ws) # {}) =>
                  /\ pre.src = "heights"
                  /\ IsMedian(pre.v, RawHeight(ws), KeptHeights(ws))
            /\ (DeclaringInWindow(ws) = {} /\ KeptHeights(ws) = {}) =>
                  /\ pre.src = "default"
                  /\ pre.v = 100

\* a token declaring 3.0 pt, outside the window: the height fallback is taken
C8_Witness ==
    /\ b_pc = "clamped"
    /\ line_words = <<Tok("h", 50, 60, 50, Some(30))>>
    /\ font_pre = Some([v |-> 60, src |-> "heights"])

=============================================================================
